---- MODULE Spec2Model ----
(***************************************************************************)
(* rename_to_avoid_collision: content-tag renamer (core.py, cli.py).       *)
(*                                                                         *)
(* Strings are sequences of one-character strings.  A digest is a sequence *)
(* of DigestLen bytes (0..255).                                            *)
(***************************************************************************)
EXTENDS Integers, Sequences, FiniteSets, TLC

VARIABLES
  fs,        \* the tree: path -> content of the regular file at that path
  log,       \* the records of the audit log file, oldest first
  plan,      \* the invocations still to be made, each an args record
  args,      \* the arguments of the running invocation
  pc,        \* "idle", "loop" (for p in iter_files), "propose" (while True), "raised"
  queue,     \* the paths the walker has still to yield
  cur,       \* propose_dst_apply: src
  n,         \* propose_dst_apply: n
  ctr,       \* the counters of the running invocation
  last,      \* history: what the run did with the file it handled last
  moves,     \* history: the renames of the running invocation, <<old, new>>
  prev,      \* history: the invocation before the running one
  fs0,       \* history: the tree before the first invocation
  runStart,  \* history: the tree when the running invocation began its walk
  cin,       \* codec checks: the input
  cout       \* codec checks: the result

vars == <<fs, log, plan, args, pc, queue, cur, n, ctr, last, moves, prev, fs0, runStart, cin, cout>>

fsvars == <<fs, log, plan, args, pc, queue, cur, n, ctr, last, moves, prev, fs0, runStart>>

(***************************************************************************)
(* Characters and Python string helpers                                    *)
(***************************************************************************)

\* The base64url alphabet, value 0..63 at index 1..64 (base64.urlsafe_b64encode).
Alphabet ==
  << "A","B","C","D","E","F","G","H","I","J","K","L","M",
     "N","O","P","Q","R","S","T","U","V","W","X","Y","Z",
     "a","b","c","d","e","f","g","h","i","j","k","l","m",
     "n","o","p","q","r","s","t","u","v","w","x","y","z",
     "0","1","2","3","4","5","6","7","8","9","-","_" >>

\* The character class [A-Za-z0-9_-] of SUFFIX_RE.
TagChars == { Alphabet[i] : i \in 1..64 }

Min(a, b) == IF a <= b THEN a ELSE b

Max(a, b) == IF a >= b THEN a ELSE b

\* Python s[:k], negative k included.
PySlice(s, k) ==
  IF k >= 0 THEN SubSeq(s, 1, Min(k, Len(s)))
  ELSE SubSeq(s, 1, Max(Len(s) + k, 0))

\* Python s[k:] for k >= 0.
PyFrom(s, k) == SubSeq(s, Min(k, Len(s)) + 1, Len(s))

\* Python s.rstrip(c) for a single character c.
RECURSIVE RStrip(_, _)
RStrip(s, c) ==
  IF Len(s) > 0 /\ s[Len(s)] = c THEN RStrip(SubSeq(s, 1, Len(s) - 1), c) ELSE s

(***************************************************************************)
(* Suffix codec (core.py)                                                  *)
(***************************************************************************)

\* Size of a BLAKE3 digest in bytes.
DigestLen == 32

\* base64.urlsafe_b64encode: groups of 3 bytes give 4 characters; a last
\* group of 1 or 2 bytes is zero-filled and its unused characters are "=".
urlsafe_b64encode(b) ==
  LET L == Len(b)
      Byte(k) == IF k <= L THEN b[k] ELSE 0
      Group(g) == Byte(3 * g + 1) * 65536 + Byte(3 * g + 2) * 256 + Byte(3 * g + 3)
      Shift(j) == IF j = 0 THEN 262144 ELSE IF j = 1 THEN 4096 ELSE IF j = 2 THEN 64 ELSE 1
      Used == (8 * L + 5) \div 6
  IN  [ i \in 1..(4 * ((L + 2) \div 3)) |->
          IF i > Used THEN "="
          ELSE Alphabet[((Group((i - 1) \div 4) \div Shift((i - 1) % 4)) % 64) + 1] ]

b64url_no_pad(b) == RStrip(urlsafe_b64encode(b), "=")

\* suffix_from_digest without the cut s[:n_chars].
suffix_from_digest_Uncut(digest, n_chars) ==
  b64url_no_pad(PySlice(digest, (3 * n_chars + 3) \div 4))

suffix_from_digest(digest, n_chars) ==
  LET n_bytes == (3 * n_chars + 3) \div 4
      s == b64url_no_pad(PySlice(digest, n_bytes))
  IN  PySlice(s, n_chars)

\* SuffixSplits were the tag of SUFFIX_RE to need 7 characters, {7,}.
SuffixSplits_Min7(stem) ==
  { k \in 0..(Len(stem) - 9) :
      /\ stem[k + 1] = "_"
      /\ stem[k + 2] = "_"
      /\ \A i \in (k + 3)..Len(stem) : stem[i] \in TagChars }

\* SUFFIX_RE = ^(?P<stem>.*)__([A-Za-z0-9_-]{4,})$ : the lengths of the
\* stem group for which the rest of the string is "__" and a tag.
SuffixSplits(stem) ==
  { k \in 0..(Len(stem) - 6) :
      /\ stem[k + 1] = "_"
      /\ stem[k + 2] = "_"
      /\ \A i \in (k + 3)..Len(stem) : stem[i] \in TagChars }

\* SUFFIX_RE.match(stem) is not None
SUFFIX_RE_match(stem) == SuffixSplits(stem) # {}

\* m.group("stem"): the greedy .* takes the longest stem that matches.
SUFFIX_RE_stem(stem) ==
  LET k == CHOOSE k \in SuffixSplits(stem) : \A j \in SuffixSplits(stem) : j <= k
  IN  SubSeq(stem, 1, k)

NoParse == [matched |-> FALSE, stem |-> <<>>, tag |-> <<>>]

parse_suffix(stem) ==
  IF ~SUFFIX_RE_match(stem) THEN NoParse
  ELSE [ matched |-> TRUE,
         stem |-> SUFFIX_RE_stem(stem),
         tag |-> PyFrom(stem, Len(SUFFIX_RE_stem(stem)) + 2) ]

\* verify_suffix_matches_digest with its test of the length alone.
verify_LengthOnly(suffix, digest, base_chars) == Len(suffix) >= base_chars

\* verify_suffix_matches_digest without its test of the length.
verify_NoMinimum(suffix, digest, base_chars) ==
  suffix = suffix_from_digest(digest, Len(suffix))

verify_suffix_matches_digest(suffix, digest, base_chars) ==
  IF Len(suffix) < base_chars THEN FALSE
  ELSE suffix = suffix_from_digest(digest, Len(suffix))

(***************************************************************************)
(* Inputs of the codec checks                                              *)
(***************************************************************************)

\* A digest whose first bytes are given and whose other bytes are 0.
Digest(prefix) == prefix \o [ i \in 1..(DigestLen - Len(prefix)) |-> 0 ]

DZero == Digest(<<>>)
DLate == Digest(<<0, 0, 0, 0, 0, 64>>)
DDash == Digest(<<248, 1, 2, 3, 4, 5, 6>>)
DUnder == Digest(<<252, 16, 131, 16, 81, 135>>)
DUnder2 == Digest(<<255, 240, 0, 16, 131>>)
DOnes == [ i \in 1..DigestLen |-> 255 ]
DMid == Digest(<<0, 15, 255, 0, 16, 131>>)
DHello == Digest(<<234, 143, 22, 61, 179, 134, 130, 146, 94, 68>>)

Digests == { DZero, DLate, DDash, DUnder, DUnder2, DOnes, DMid, DHello }

(***************************************************************************)
(* Paths (pathlib) and file contents                                       *)
(***************************************************************************)

\* The index of the last "." of a name, 0 when it has none (str.rfind + 1).
LastDot(name) ==
  LET dots == { i \in 1..Len(name) : name[i] = "." }
  IN  IF dots = {} THEN 0 ELSE CHOOSE i \in dots : \A j \in dots : j <= i

\* PurePath.suffix: from the last dot, unless that dot starts or ends the name.
PathSuffix(name) ==
  IF 1 < LastDot(name) /\ LastDot(name) < Len(name)
  THEN SubSeq(name, LastDot(name), Len(name)) ELSE <<>>

\* PurePath.stem
PathStem(name) ==
  IF 1 < LastDot(name) /\ LastDot(name) < Len(name)
  THEN SubSeq(name, 1, LastDot(name) - 1) ELSE name

\* PurePath.with_name
with_name(p, name) == [dir |-> p.dir, name |-> name]

\* str.lower on the characters of the model: A..Z are Alphabet[1..26].
Lower(s) ==
  [ i \in 1..Len(s) |->
      IF \E k \in 1..26 : Alphabet[k] = s[i]
      THEN Alphabet[(CHOOSE k \in 1..26 : Alphabet[k] = s[i]) + 26]
      ELSE s[i] ]

\* str(i) for i >= 0; "0" is Alphabet[53].
RECURSIVE Decimal(_)
Decimal(i) ==
  IF i < 10 THEN << Alphabet[53 + i] >>
  ELSE Decimal(i \div 10) \o << Alphabet[53 + (i % 10)] >>

Heic == <<".", "h", "e", "i", "c">>

\* ext_filter = {".heic"}, the default when neither --ext nor --preset is given.
ext_filter == { Heic }

Root == "r"

SubDir == "r/s"

\* log_path = root / "rename-log.jsonl", the default of --log.
log_path ==
  [ dir |-> Root,
    name |-> <<"r","e","n","a","m","e","-","l","o","g",".","j","s","o","n","l">> ]

NoPath == [dir |-> "", name |-> <<>>]

\* File contents are named; LogData marks the audit log, whose bytes are log.
Contents == { "zero", "late", "under" }

LogData == "log"

\* digest_blake3 of each content: "zero" and "late" differ but share their
\* tags up to 6 characters; the tags of "under" begin with "_".
digest_blake3(c) ==
  CASE c = "zero" -> DZero
    [] c = "late" -> DLate
    [] c = "under" -> DUnder
    [] OTHER -> DHello

\* stat().st_size
st_size(c) ==
  CASE c = "zero" -> 3
    [] c = "late" -> 3
    [] c = "under" -> 5
    [] OTHER -> 0

\* sha256_digest were every content to hash alike.
sha256_digest_Constant(c) == <<"sha256">>

\* sha256_digest, taken to be free of collisions.
sha256_digest(c) == <<"sha256", c>>

\* same_bytes were it to compare the sizes alone.
same_bytes_SizeOnly(tree, a, b) == st_size(tree[a]) = st_size(tree[b])

same_bytes(tree, a, b) ==
  IF st_size(tree[a]) # st_size(tree[b]) THEN FALSE
  ELSE sha256_digest(tree[a]) = sha256_digest(tree[b])

\* Path.exists
exists(tree, p) == p \in DOMAIN tree

\* Path.rename (os.rename): an existing file at dst is replaced silently.
rename(tree, src, dst) ==
  [ q \in (DOMAIN tree \ {src}) \cup {dst} |-> IF q = dst THEN tree[src] ELSE tree[q] ]

\* The limit of range(1, 10_000_000), scaled down so that a tree of a few
\* files can take every name the search tries: the counters tried are
\* 1..CounterLimit - 1 (in the source 1..9_999_999).
CounterLimit == 3

\* The result that stands for "raise RuntimeError".
Raised == [dir |-> "", name |-> <<"!">>]

\* first_free_counter were the search to begin after i, range(2, ...).
RECURSIVE first_free_counter_FromNext(_, _, _, _, _)
first_free_counter_FromNext(tree, dirpath, stem, ext, i) ==
  IF i + 1 >= CounterLimit THEN Raised
  ELSE LET cand == [dir |-> dirpath, name |-> stem \o <<"_">> \o Decimal(i + 1) \o ext]
       IN  IF ~exists(tree, cand) THEN cand
           ELSE first_free_counter_FromNext(tree, dirpath, stem, ext, i + 1)

\* first_free_counter were it to return the last name tried when all are taken.
RECURSIVE first_free_counter_LastTried(_, _, _, _, _)
first_free_counter_LastTried(tree, dirpath, stem, ext, i) ==
  IF i >= CounterLimit
  THEN [dir |-> dirpath, name |-> stem \o <<"_">> \o Decimal(i - 1) \o ext]
  ELSE LET cand == [dir |-> dirpath, name |-> stem \o <<"_">> \o Decimal(i) \o ext]
       IN  IF ~exists(tree, cand) THEN cand
           ELSE first_free_counter_LastTried(tree, dirpath, stem, ext, i + 1)

\* first_free_counter were it to return stem_i.ext without looking for it.
first_free_counter_Unchecked(tree, dirpath, stem, ext, i) ==
  [dir |-> dirpath, name |-> stem \o <<"_">> \o Decimal(i) \o ext]

\* find_noncolliding_strip_dst under add-counter: the first stem_i.ext that
\* does not exist, Raised when range(1, 10_000_000) is exhausted.
RECURSIVE first_free_counter(_, _, _, _, _)
first_free_counter(tree, dirpath, stem, ext, i) ==
  IF i >= CounterLimit THEN Raised
  ELSE LET cand == [dir |-> dirpath, name |-> stem \o <<"_">> \o Decimal(i) \o ext]
       IN  IF ~exists(tree, cand) THEN cand
           ELSE first_free_counter(tree, dirpath, stem, ext, i + 1)

\* find_noncolliding_strip_dst: None (NoPath here) unless the policy is add-counter.
find_noncolliding_strip_dst(tree, dirpath, stem, ext, policy) ==
  IF policy # "add-counter" THEN NoPath
  ELSE first_free_counter(tree, dirpath, stem, ext, 1)

\* candidate were it to take the extension as the filter compares it, lowered.
candidate_LowerExt(src, digest, k) ==
  with_name(src, PathStem(src.name) \o <<"_", "_">> \o suffix_from_digest(digest, k)
                   \o Lower(PathSuffix(src.name)))

\* The candidate of propose_dst_apply at tag length k.
candidate(src, digest, k) ==
  with_name(src, PathStem(src.name) \o <<"_", "_">> \o suffix_from_digest(digest, k)
                   \o PathSuffix(src.name))

\* The number of characters of the unpadded base64 of a whole digest; from
\* this length on suffix_from_digest returns the same string.
FullTagLen == (8 * DigestLen + 5) \div 6

\* "n += 1" of propose_dst_apply has no limit; the model follows n up to here.
MaxTagLen == 45

(***************************************************************************)
(* The run of main (cli.py)                                                *)
(***************************************************************************)

ZeroCounters ==
  [ scanned |-> 0, considered |-> 0, renamed |-> 0, skipped_not_target |-> 0,
    skipped_dupe_or_already |-> 0, skipped_verify_fail |-> 0, conflicts |-> 0 ]

NoArgs == [strip |-> FALSE, apply |-> FALSE, chars |-> 0, verify |-> TRUE, conflict |-> "refuse"]

NoLast ==
  [ src |-> NoPath, outcome |-> "none", dst |-> NoPath, tag |-> <<>>,
    moved |-> FALSE, occupied |-> FALSE, before |-> <<>>, counted |-> ZeroCounters ]

NoPrev == [ran |-> FALSE, args |-> NoArgs, moves |-> {}, ctr |-> ZeroCounters]

\* All orders of the elements of a finite set.
Orders(S) ==
  { q \in [1..Cardinality(S) -> S] : \A i, j \in 1..Cardinality(S) : q[i] = q[j] => i = j }

\* iter_files: os.walk yields the files of the root, then those of the
\* subdirectory, each directory's files in an order the filesystem chooses.
iter_files(tree) ==
  { a \o b : a \in Orders({ p \in DOMAIN tree : p.dir = Root }),
             b \in Orders({ p \in DOMAIN tree : p.dir = SubDir }) }

\* The record main writes after a rename in apply mode (cli.py 147-165).
apply_record(p, dst, sfx, digest, tree) ==
  [ ts |-> "now", run_id |-> Len(plan), mode |-> "apply", dry_run |-> ~args.apply,
    root |-> Root, chars_min |-> args.chars, preset |-> "None", exts |-> ext_filter,
    verify |-> FALSE, conflict_policy |-> "None", old |-> p, new |-> dst,
    suffix_used |-> sfx, suffix_removed |-> "None",
    blake3_b64url |-> b64url_no_pad(digest),
    size |-> st_size(tree[dst]), mtime |-> "st_mtime" ]

\* The record main writes after a rename in strip mode (cli.py 218-226).
strip_record(p, dst, suffix, tree) ==
  [ mode |-> "strip", old |-> p, new |-> dst, verify |-> args.verify,
    suffix_removed |-> suffix, size |-> st_size(tree[dst]), mtime |-> "st_mtime" ]

\* main, lines 70-105: the arguments are parsed, the log is opened for
\* appending when --apply is given (which creates it), the counters start
\* at 0 and the walk begins.
StartRun ==
  /\ pc \in {"idle", "raised"}
  /\ plan # <<>>
  /\ LET a == Head(plan)
         tree == IF a.apply /\ ~exists(fs, log_path)
                 THEN [ q \in DOMAIN fs \cup {log_path} |->
                          IF q = log_path THEN LogData ELSE fs[q] ]
                 ELSE fs
     IN  /\ args' = a
         /\ fs' = tree
         /\ runStart' = tree
         /\ queue' \in iter_files(tree)
  /\ plan' = Tail(plan)
  /\ ctr' = ZeroCounters
  /\ moves' = {}
  /\ last' = NoLast
  /\ pc' = "loop"
  /\ UNCHANGED <<log, cur, n, prev, fs0, cin, cout>>

\* FileDone were a record to be written for every file whose destination was
\* computed, renamed or not.
FileDone_RecordAll(p, outcome, dst, tag, moved, rec, counters) ==
  /\ fs' = IF moved THEN rename(fs, p, dst) ELSE fs
  /\ log' = IF outcome \in {"Rename", "Duplicate", "Conflict"} THEN Append(log, rec) ELSE log
  /\ ctr' = counters
  /\ moves' = IF moved THEN moves \cup {<<p, dst>>} ELSE moves
  /\ last' = [ src |-> p, outcome |-> outcome, dst |-> dst, tag |-> tag, moved |-> moved,
               occupied |-> exists(fs, dst), before |-> fs, counted |-> ctr ]
  /\ queue' = Tail(queue)
  /\ pc' = "loop"

\* FileDone were p.rename(dst) to be called for every proposal, --apply or not.
FileDone_Commit(p, outcome, dst, tag, moved, rec, counters) ==
  /\ fs' = IF outcome = "Rename" THEN rename(fs, p, dst) ELSE fs
  /\ log' = IF moved THEN Append(log, rec) ELSE log
  /\ ctr' = counters
  /\ moves' = IF moved THEN moves \cup {<<p, dst>>} ELSE moves
  /\ last' = [ src |-> p, outcome |-> outcome, dst |-> dst, tag |-> tag, moved |-> moved,
               occupied |-> exists(fs, dst), before |-> fs, counted |-> ctr ]
  /\ queue' = Tail(queue)
  /\ pc' = "loop"

\* The end of one pass of the for loop: what became of file p.
\* moved: p.rename(dst) was called; rec: the record written when it was.
FileDone(p, outcome, dst, tag, moved, rec, counters) ==
  /\ fs' = IF moved THEN rename(fs, p, dst) ELSE fs
  /\ log' = IF moved THEN Append(log, rec) ELSE log
  /\ ctr' = counters
  /\ moves' = IF moved THEN moves \cup {<<p, dst>>} ELSE moves
  /\ last' = [ src |-> p, outcome |-> outcome, dst |-> dst, tag |-> tag, moved |-> moved,
               occupied |-> exists(fs, dst), before |-> fs, counted |-> ctr ]
  /\ queue' = Tail(queue)
  /\ pc' = "loop"

Bump(c, f) == [c EXCEPT ![f] = @ + 1]

\* main, lines 172-229: strip mode for the considered file p.
StripFile(p, c) ==
  LET parsed == parse_suffix(PathStem(p.name))
      base_stem == parsed.stem
      suffix == parsed.tag
      digest == digest_blake3(fs[p])
      dst == with_name(p, base_stem \o PathSuffix(p.name))
      alt == find_noncolliding_strip_dst(fs, p.dir, base_stem, PathSuffix(p.name),
                                         args.conflict)
      none == 0
  IN  IF ~parsed.matched
      THEN FileDone(p, "NotTagged", NoPath, <<>>, FALSE, none,
                    Bump(c, "skipped_dupe_or_already"))
      ELSE IF args.verify /\ ~verify_suffix_matches_digest(suffix, digest, args.chars)
      THEN FileDone(p, "VerifyFailed", NoPath, suffix, FALSE, none,
                    Bump(c, "skipped_verify_fail"))
      ELSE IF ~exists(fs, dst)
      THEN FileDone(p, "Rename", dst, suffix, args.apply,
                    strip_record(p, dst, suffix, rename(fs, p, dst)), Bump(c, "renamed"))
      ELSE IF same_bytes(fs, p, dst)
      THEN FileDone(p, "Duplicate", dst, suffix, FALSE, none,
                    Bump(c, "skipped_dupe_or_already"))
      ELSE IF args.conflict = "keep-suffixed" \/ args.conflict = "refuse"
      THEN FileDone(p, "Conflict", dst, suffix, FALSE, none, Bump(c, "conflicts"))
      ELSE IF alt = Raised
      THEN /\ pc' = "raised"
           /\ ctr' = c
           /\ last' = [NoLast EXCEPT !.src = p, !.outcome = "Raised", !.before = fs,
                                   !.counted = ctr]
           /\ UNCHANGED <<fs, log, moves, queue>>
      ELSE IF alt = NoPath
      THEN FileDone(p, "Conflict", dst, suffix, FALSE, none, Bump(c, "conflicts"))
      ELSE FileDone(p, "Rename", alt, suffix, args.apply,
                    strip_record(p, alt, suffix, rename(fs, p, alt)),
                    Bump(Bump(c, "conflicts"), "renamed"))

\* main, lines 108-136 and 172-229: one pass of "for p in iter_files(root)"
\* up to the call of propose_dst_apply, and all of it in strip mode.
ForFile ==
  /\ pc = "loop"
  /\ queue # <<>>
  /\ LET p == Head(queue)
         c1 == Bump(ctr, "scanned")
         c2 == Bump(c1, "considered")
     IN  IF ~exists(fs, p)
         THEN /\ FileDone(p, "NotFile", NoPath, <<>>, FALSE, 0, c1)
              /\ UNCHANGED <<cur, n>>
         ELSE IF Lower(PathSuffix(p.name)) \notin ext_filter
         THEN /\ FileDone(p, "NotTarget", NoPath, <<>>, FALSE, 0,
                          Bump(c1, "skipped_not_target"))
              /\ UNCHANGED <<cur, n>>
         ELSE IF args.strip
         THEN /\ StripFile(p, c2)
              /\ UNCHANGED <<cur, n>>
         ELSE IF SUFFIX_RE_match(PathStem(p.name))
         THEN /\ FileDone(p, "AlreadyTagged", NoPath, <<>>, FALSE, 0,
                          Bump(c2, "skipped_dupe_or_already"))
              /\ UNCHANGED <<cur, n>>
         ELSE /\ pc' = "propose"
              /\ cur' = p
              /\ n' = args.chars
              /\ ctr' = c2
              /\ UNCHANGED <<fs, log, moves, last, queue>>
  /\ UNCHANGED <<plan, args, prev, fs0, runStart, cin, cout>>

\* propose_dst_apply, lines 78-85: one pass of "while True", and on return
\* main, lines 134-169.
ProposeStep ==
  /\ pc = "propose"
  /\ LET digest == digest_blake3(fs[cur])
         sfx == suffix_from_digest(digest, n)
         dst == candidate(cur, digest, n)
     IN  IF ~exists(fs, dst)
         THEN /\ FileDone(cur, "Rename", dst, sfx, args.apply,
                          apply_record(cur, dst, sfx, digest, rename(fs, cur, dst)),
                          Bump(ctr, "renamed"))
              /\ UNCHANGED n
         ELSE IF same_bytes(fs, cur, dst)
         THEN /\ FileDone(cur, "Duplicate", dst, <<>>, FALSE, 0,
                          Bump(ctr, "skipped_dupe_or_already"))
              /\ UNCHANGED n
         ELSE /\ n < MaxTagLen
              /\ n' = n + 1
              /\ UNCHANGED <<fs, log, ctr, moves, last, queue, pc>>
  /\ UNCHANGED <<cur, plan, args, prev, fs0, runStart, cin, cout>>

\* main, lines 231-248: the walk is over, the log is closed, the counters
\* are printed and main returns 0.
EndRun ==
  /\ pc = "loop"
  /\ queue = <<>>
  /\ pc' = "idle"
  /\ prev' = [ran |-> TRUE, args |-> args, moves |-> moves, ctr |-> ctr]
  /\ UNCHANGED <<fs, log, plan, args, queue, cur, n, ctr, last, moves, fs0, runStart, cin, cout>>

Next == StartRun \/ ForFile \/ ProposeStep \/ EndRun

(***************************************************************************)
(* Failures of the filesystem                                              *)
(***************************************************************************)

\* An exception leaves the for loop of main: "finally" closes the log and main
\* ends with the error; the files not yet yielded are not handled.
Abort(p, outcome, dst, counters) ==
  /\ pc' = "raised"
  /\ ctr' = counters
  /\ last' = [NoLast EXCEPT !.src = p, !.outcome = outcome, !.dst = dst, !.before = fs,
                            !.counted = ctr]
  /\ UNCHANGED <<fs, log, moves, queue, cur, n, plan, args, prev, fs0, runStart, cin, cout>>

\* The destination main is about to rename p to in strip mode (cli.py
\* 173-208), NoPath when the pass ends without a rename.
strip_dst(p) ==
  LET parsed == parse_suffix(PathStem(p.name))
      dst == with_name(p, parsed.stem \o PathSuffix(p.name))
      alt == find_noncolliding_strip_dst(fs, p.dir, parsed.stem, PathSuffix(p.name),
                                         args.conflict)
  IN  IF ~parsed.matched THEN NoPath
      ELSE IF args.verify /\ ~verify_suffix_matches_digest(parsed.tag, digest_blake3(fs[p]),
                                                           args.chars)
      THEN NoPath
      ELSE IF ~exists(fs, dst) THEN dst
      ELSE IF same_bytes(fs, p, dst) THEN NoPath
      ELSE IF args.conflict # "add-counter" \/ alt = Raised THEN NoPath
      ELSE alt

\* p.rename(dst) raises OSError (cli.py 142 and 215): nothing is renamed, the
\* lines after the call are not run, and the exception is not caught.
RenameFails ==
  /\ args.apply
  /\ \/ /\ pc = "propose"
        /\ ~exists(fs, candidate(cur, digest_blake3(fs[cur]), n))
        /\ Abort(cur, "RenameFailed", candidate(cur, digest_blake3(fs[cur]), n), ctr)
     \/ /\ pc = "loop"
        /\ queue # <<>>
        /\ args.strip
        /\ exists(fs, Head(queue))
        /\ Lower(PathSuffix(Head(queue).name)) \in ext_filter
        /\ strip_dst(Head(queue)) # NoPath
        /\ LET p == Head(queue)
               c2 == Bump(Bump(ctr, "scanned"), "considered")
               target == with_name(p, parse_suffix(PathStem(p.name)).stem
                                        \o PathSuffix(p.name))
           IN  Abort(p, "RenameFailed", strip_dst(p),
                     IF strip_dst(p) = target THEN c2 ELSE Bump(c2, "conflicts"))

\* digest_blake3(p) raises OSError while it opens or reads the file (cli.py
\* 132 in append mode, cli.py 180 in strip mode with verify): the exception
\* is not caught.
DigestFails ==
  /\ pc = "loop"
  /\ queue # <<>>
  /\ exists(fs, Head(queue))
  /\ Lower(PathSuffix(Head(queue).name)) \in ext_filter
  /\ args.strip => (args.verify /\ parse_suffix(PathStem(Head(queue).name)).matched)
  /\ Abort(Head(queue), "DigestFailed", NoPath, Bump(Bump(ctr, "scanned"), "considered"))

FaultNext == Next \/ RenameFails \/ DigestFails

(***************************************************************************)
(* Trees and invocations the checks start from                             *)
(***************************************************************************)

File(dir, stem, ext) == [dir |-> dir, name |-> stem \o ext]

TagZero4 == suffix_from_digest(DZero, 4)
TagZero6 == suffix_from_digest(DZero, 6)
TagZero7 == suffix_from_digest(DZero, 7)
TagUnder6 == suffix_from_digest(DUnder, 6)

TagUnder7 == suffix_from_digest(DUnder, 7)
TagZero42 == suffix_from_digest(DZero, FullTagLen - 1)
TagZero43 == suffix_from_digest(DZero, FullTagLen)

Plain == File(Root, <<"a">>, Heic)
Tagged6 == File(Root, <<"a", "_", "_">> \o TagZero6, Heic)
Tagged7 == File(Root, <<"a", "_", "_">> \o TagZero7, Heic)
Tagged4 == File(Root, <<"a", "_", "_">> \o TagZero4, Heic)
TaggedTwice == File(Root, <<"a", "_", "_">> \o TagZero4 \o <<"_", "_">> \o TagZero4, Heic)
ShortTagged == File(Root, <<"a", "_", "_", "b", "c", "_", "_">> \o TagZero4, Heic)
ShortTag == File(Root, <<"a", "_", "_", "b", "c">>, Heic)
TaggedUnder6 == File(Root, <<"a", "_", "_">> \o TagUnder6, Heic)
Counter1 == File(Root, <<"a", "_", "1">>, Heic)
Counter2 == File(Root, <<"a", "_", "2">>, Heic)
Tagged42 == File(Root, <<"a", "_", "_">> \o TagZero42, Heic)
Tagged43 == File(Root, <<"a", "_", "_">> \o TagZero43, Heic)
PlainUS == File(Root, <<"a", "_">>, Heic)
SubPlain == File(SubDir, <<"a">>, Heic)
SubUpper == File(SubDir, <<"a">>, <<".", "H", "E", "I", "C">>)
Other == File(Root, <<"a">>, <<".", "t", "x", "t">>)

\* The most files a tree of Spec starts with.
MaxFiles == 3

\* The most files a tree of the two-invocation specifications starts with.
MaxPairFiles == 2

\* The trees of at most k files with names of a set and contents of a set.
Trees(names, contents, k) ==
  UNION { [S -> contents] : S \in { T \in SUBSET names : Cardinality(T) <= k } }

\* --chars
RunChars == { 4, 6 }

Policies == { "refuse", "keep-suffixed", "add-counter" }

AppendArgs(chars) ==
  [strip : {FALSE}, apply : BOOLEAN, chars : chars, verify : {TRUE}, conflict : {"refuse"}]

\* Without verify, --chars is not read in strip mode.
StripArgs(chars) ==
  { a \in [strip : {TRUE}, apply : BOOLEAN, chars : chars, verify : BOOLEAN,
           conflict : Policies] : ~a.verify => a.chars = 6 }

AllArgs == AppendArgs(RunChars) \cup StripArgs(RunChars)

NoOut == [op |-> "none", str |-> <<>>, parsed |-> NoParse, ok |-> FALSE]

CodecIdle ==
  /\ cin = [op |-> "none", d |-> <<>>, n |-> 0, m |-> 0, base |-> <<>>, tag |-> <<>>]
  /\ cout = NoOut

RunIdle ==
  /\ log = <<>>
  /\ args = NoArgs
  /\ pc = "idle"
  /\ queue = <<>>
  /\ cur = NoPath
  /\ n = 0
  /\ ctr = ZeroCounters
  /\ last = NoLast
  /\ moves = {}
  /\ prev = NoPrev

\* A tree and the invocations to make on it.
Start(trees, plans) ==
  /\ fs \in trees
  /\ fs0 = fs
  /\ runStart = fs
  /\ plan \in plans
  /\ RunIdle
  /\ CodecIdle

\* Two invocations with --apply and the same --chars and, when both strip,
\* the same --conflict.
Pairs ==
  { <<a, b>> \in AllArgs \X AllArgs :
      /\ a.apply /\ b.apply /\ b.chars = a.chars
      /\ (a.strip /\ b.strip) => b.conflict = a.conflict }

SpecNames == { Plain, Tagged4, Tagged6, Counter1 }

\* One invocation with any arguments, or a pair of invocations on a smaller
\* tree; the files are a.heic, two of its tagged names and its first counter
\* name.
Init ==
  \/ Start(Trees(SpecNames, {"zero", "late"}, MaxFiles), { <<a>> : a \in AllArgs })
  \/ Start(Trees(SpecNames, {"zero", "late"}, MaxPairFiles), Pairs)

Spec == Init /\ [][Next]_vars

\* Two append invocations with the same --chars, the first with --apply.
AppendInit ==
  Start(Trees({Plain, Tagged6, TaggedUnder6, ShortTag, SubUpper}, Contents, MaxPairFiles),
        { <<a, b>> \in AppendArgs({3, 4, 6}) \X AppendArgs({3, 4, 6}) :
            a.apply /\ b.chars = a.chars })

AppendSpec == AppendInit /\ [][Next]_vars

\* Two strip invocations with the same --chars and --conflict, the first with
\* --apply; no file is handed to propose_dst_apply.
StripInit ==
  Start(Trees({Plain, Tagged4, Tagged6, TaggedTwice, ShortTagged, ShortTag, TaggedUnder6,
               Counter1}, {"zero", "under"}, MaxPairFiles),
        { <<a, b>> \in StripArgs(RunChars) \X StripArgs(RunChars) :
            a.apply /\ b.chars = a.chars /\ b.conflict = a.conflict })

StripNext == StartRun \/ ForFile \/ EndRun

StripSpec == StripInit /\ [][StripNext]_vars

\* append --apply, then strip --apply with verify and the same --chars, on a
\* tree in which no stem has the tagged form.
RoundTripInit ==
  Start(Trees({Plain, PlainUS, ShortTag, Counter1, SubPlain, SubUpper, Other}, Contents,
              MaxPairFiles),
        { <<a, b>> \in AppendArgs(RunChars) \X StripArgs(RunChars) :
            a.apply /\ b.apply /\ b.verify /\ b.chars = a.chars })

RoundTripSpec == RoundTripInit /\ [][Next]_vars

\* One strip invocation on a tree whose tagged names may carry the tag of
\* their content, a tag too short for --chars, or the tag of other content.
VerifyInit ==
  Start(Trees({Plain, Tagged4, Tagged6, TaggedUnder6}, {"zero", "under"}, MaxFiles),
        { <<a>> : a \in StripArgs(RunChars) })

VerifySpec == VerifyInit /\ [][StripNext]_vars

\* The most files a tree of CounterSpec starts with.
MaxCounterFiles == 4

\* One strip invocation under add-counter on a tree that can hold a tagged
\* file, its untagged target and every counter name the search tries.
CounterInit ==
  Start(Trees({Tagged4, Plain, Counter1, Counter2}, {"zero", "late"}, MaxCounterFiles),
        { <<a>> : a \in { b \in StripArgs(RunChars) : b.conflict = "add-counter" } })

CounterSpec == CounterInit /\ [][StripNext]_vars

\* Any invocation, then an invocation without --apply with the same --chars.
DryInit ==
  Start(Trees(SpecNames, {"zero", "late"}, MaxPairFiles),
        { <<a, b>> \in AllArgs \X AllArgs : ~b.apply /\ b.chars = a.chars })

DrySpec == DryInit /\ [][Next]_vars

\* Two invocations with --apply and the same --chars, --conflict and verify
\* setting, in which renames and reads may fail.
FaultInit ==
  Start(Trees(SpecNames, {"zero", "late"}, MaxPairFiles),
        { <<a, b>> \in AllArgs \X AllArgs :
            /\ a.apply /\ b.apply
            /\ b.chars = a.chars /\ b.conflict = a.conflict /\ b.verify = a.verify })

FaultSpec == FaultInit /\ [][FaultNext]_vars

\* One append invocation with a --chars near the length of a whole digest, on
\* a tree that can hold a.heic and the names of its longest tags.
LongTagInit ==
  Start(Trees({Plain, Tagged42, Tagged43, SubPlain}, {"zero", "late"}, MaxFiles),
        { <<a>> : a \in AppendArgs({FullTagLen - 1, FullTagLen}) })

LongTagSpec == LongTagInit /\ [][Next]_vars

(***************************************************************************)
(* The codec on its own                                                    *)
(***************************************************************************)

\* Requested tag lengths tried by the codec checks: MinChars..MaxChars.
MaxChars == 45

MinChars == 0 - 3

\* Stems that are not of the tagged form, and two that are.
Bases ==
  { <<"p">>, <<"p", "_">>, <<"I", "M", "G", "_", "1">>, <<"a", "_", "_", "b", "c">>,
    <<"a", ".", "b">>, <<>>,
    <<"a", "_", "_", "A", "A", "A", "A">>, <<"p", "_", "_", "_", "B", "C", "D", "E">> }

\* Tags handed to verify: abcdef of test_verify_suffix_matches_digest, a tag
\* that differs from encode(DHello, 6) in its last character, and every
\* encoding of a digest at the lengths 3..8.
Tags ==
  { <<"a", "b", "c", "d", "e", "f">>, <<"6", "o", "8", "W", "P", "a">> }
    \cup { suffix_from_digest(d, k) : d \in Digests, k \in 3..8 }

BaseCharsChoices == { 4, 6, 7 }

PrefixInputs ==
  { i \in [op : {"prefix"}, d : Digests, n : 0..MaxChars, m : 0..MaxChars,
           base : {<<>>}, tag : {<<>>}] : i.n < i.m }

CodecInputs ==
  [op : {"encode"}, d : Digests, n : MinChars..MaxChars, m : {0}, base : {<<>>}, tag : {<<>>}]
    \cup [op : {"parse"}, d : Digests, n : {4, 5, 6, 7, 8}, m : {0}, base : Bases, tag : {<<>>}]
    \cup [op : {"verify"}, d : Digests, n : BaseCharsChoices, m : {0}, base : {<<>>}, tag : Tags]
    \cup PrefixInputs

CodecInit ==
  /\ cin \in CodecInputs
  /\ cout = NoOut
  /\ fs = <<>>
  /\ fs0 = fs
  /\ runStart = fs
  /\ plan = <<>>
  /\ RunIdle

\* s = suffix_from_digest(d, n)
Encode ==
  /\ cin.op = "encode"
  /\ cout.op = "none"
  /\ cout' = [NoOut EXCEPT !.op = "encode", !.str = suffix_from_digest(cin.d, cin.n)]
  /\ UNCHANGED <<cin, fsvars>>

\* parse_suffix(base + "__" + suffix_from_digest(d, n))
ParseTagged ==
  /\ cin.op = "parse"
  /\ cout.op = "none"
  /\ cout' = [NoOut EXCEPT
                !.op = "parse",
                !.str = cin.base \o <<"_", "_">> \o suffix_from_digest(cin.d, cin.n),
                !.parsed = parse_suffix(cin.base \o <<"_", "_">> \o suffix_from_digest(cin.d, cin.n))]
  /\ UNCHANGED <<cin, fsvars>>

\* verify_suffix_matches_digest(tag, d, n)
Verify ==
  /\ cin.op = "verify"
  /\ cout.op = "none"
  /\ cout' = [NoOut EXCEPT !.op = "verify",
                           !.ok = verify_suffix_matches_digest(cin.tag, cin.d, cin.n)]
  /\ UNCHANGED <<cin, fsvars>>

\* str.startswith
IsPrefix(a, b) == Len(a) <= Len(b) /\ SubSeq(b, 1, Len(a)) = a

\* suffix_from_digest(d, m).startswith(suffix_from_digest(d, n)) for n < m
Prefix ==
  /\ cin.op = "prefix"
  /\ cout.op = "none"
  /\ cout' = [NoOut EXCEPT
                !.op = "prefix",
                !.str = suffix_from_digest(cin.d, cin.n),
                !.ok = IsPrefix(suffix_from_digest(cin.d, cin.n),
                                suffix_from_digest(cin.d, cin.m))]
  /\ UNCHANGED <<cin, fsvars>>

CodecNext == Encode \/ ParseTagged \/ Verify \/ Prefix

CodecSpec == CodecInit /\ [][CodecNext]_vars

(***************************************************************************)
(* Properties                                                              *)
(***************************************************************************)

\* How many files of a tree hold content c.
Count(tree, c) == Cardinality({ p \in DOMAIN tree : tree[p] = c })

\* The running invocation has just finished a file.
Handled == last.outcome # "none"

\* The file handled last went through the extension filter.
Considered == Handled /\ last.outcome \notin {"NotFile", "NotTarget"}

\* C1 as claimed: every rename that is performed goes to a path at which no
\* file exists at that moment, and the multiset of the contents of all files
\* of the tree is the one the tree started with.
C1_NoOverwriteAnyFile ==
  /\ last.moved => last.dst \notin DOMAIN last.before
  /\ \A c \in Contents \cup {LogData} : Count(fs, c) = Count(fs0, c)

\* C1 as amended: every rename that is performed goes to a path at which no
\* file exists at that moment, and the multiset of the contents of the files
\* other than the audit log is the one the tree started with.
C1_NoOverwrite ==
  /\ last.moved => last.dst \notin DOMAIN last.before
  /\ \A c \in Contents : Count(fs, c) = Count(fs0, c)

\* C1 witness: the second of two invocations has renamed a file while the
\* name strip would first give it, and the first counter name, were taken.
C1_Witness ==
  /\ prev.ran
  /\ last.moved
  /\ args.strip
  /\ Counter1 \in DOMAIN last.before
  /\ Plain \in DOMAIN last.before
  /\ last.dst.name = <<"a", "_", "2">> \o Heic

\* The paths the invocation before the running one renamed files to.
RenamedBefore == { m[2] : m \in prev.moves }

\* An invocation is under way that follows a completed one, described by prev.
Following == prev.ran /\ pc # "idle"

\* C2: after an append invocation with --apply, an append invocation with
\* the same --chars >= 4 renames nothing and leaves the tree as it found it,
\* and every file the first one renamed has a stem of the tagged form and is
\* skipped as already tagged, with no destination.
C2_AppendIdempotent ==
  ( /\ Following
    /\ ~prev.args.strip /\ prev.args.apply
    /\ ~args.strip /\ args.chars = prev.args.chars /\ args.chars >= 4 )
  => /\ fs = runStart
     /\ ctr.renamed = 0
     /\ moves = {}
     /\ (Handled /\ last.src \in RenamedBefore)
          => /\ last.outcome = "AlreadyTagged"
             /\ last.dst = NoPath
             /\ SUFFIX_RE_match(PathStem(last.src.name))

\* C2 witness: the second append invocation, itself with --apply, has
\* skipped a file that the first one renamed in the subdirectory.
C2_Witness ==
  /\ Following
  /\ ~prev.args.strip /\ ~args.strip /\ args.apply /\ args.chars >= 4
  /\ last.src \in RenamedBefore
  /\ last.src.dir = SubDir
  /\ last.outcome = "AlreadyTagged"

\* C8: when no file exists at stem + "__" + encode(d, base_chars) + extension
\* for an untagged source with digest d, append proposes exactly that path in
\* the directory of the source, with the tag encode(d, base_chars), and
\* with --apply the file is then at that path.
C8_FreeCandidate ==
  (Considered /\ ~args.strip) =>
    LET p == last.src
        tree == last.before
        stem == PathStem(p.name)
        tag == suffix_from_digest(digest_blake3(tree[p]), args.chars)
        want == [dir |-> p.dir, name |-> stem \o <<"_", "_">> \o tag \o PathSuffix(p.name)]
    IN  (~SUFFIX_RE_match(stem) /\ want \notin DOMAIN tree)
          => /\ last.outcome = "Rename"
             /\ last.dst = want
             /\ last.tag = tag
             /\ PathSuffix(last.dst.name) = PathSuffix(p.name)
             /\ args.apply => (want \in DOMAIN fs /\ fs[want] = tree[p] /\ p \notin DOMAIN fs)

\* C8 witness: a.HEIC of the subdirectory was renamed to its free candidate.
C8_Witness ==
  /\ ~args.strip
  /\ last.src = SubUpper
  /\ last.outcome = "Rename"
  /\ last.moved
  /\ Len(last.tag) = args.chars

\* C9 as claimed: when the base-length candidate of an untagged source is
\* taken by a file with other content, append proposes a rename whose tag
\* is longer than base_chars and is encode(d, len(tag)), to a path that does
\* not exist and is not the taken one, and both the taken name and the new
\* name parse back to the stem of the source.  (Stated for --chars >= 4.)
C9_CollisionExtension ==
  (Considered /\ ~args.strip /\ args.chars >= 4) =>
    LET p == last.src
        tree == last.before
        stem == PathStem(p.name)
        d == digest_blake3(tree[p])
        taken == [ dir |-> p.dir,
                   name |-> stem \o <<"_", "_">> \o suffix_from_digest(d, args.chars)
                              \o PathSuffix(p.name) ]
    IN  (~SUFFIX_RE_match(stem) /\ taken \in DOMAIN tree /\ tree[taken] # tree[p])
          => /\ last.outcome = "Rename"
             /\ Len(last.tag) > args.chars
             /\ last.tag = suffix_from_digest(d, Len(last.tag))
             /\ last.dst \notin DOMAIN tree
             /\ last.dst # taken
             /\ parse_suffix(PathStem(taken.name)).matched
             /\ parse_suffix(PathStem(taken.name)).stem = stem
             /\ parse_suffix(PathStem(last.dst.name)).matched
             /\ parse_suffix(PathStem(last.dst.name)).stem = stem

\* C3 as claimed: a file that a strip invocation with --apply renamed is
\* reported as not tagged by the strip invocation that follows.
C3_StripIdempotent ==
  (Following /\ Handled /\ last.src \in RenamedBefore)
    => /\ last.outcome = "NotTagged"
       /\ ~parse_suffix(PathStem(last.src.name)).matched

\* C4 as claimed: from a tree in which no stem has the tagged form, append
\* with --apply and then strip with --apply, verify and the same --chars
\* leave every file at the path and with the content it started with.
C4_RoundTrip ==
  (prev.ran /\ pc = "idle" /\ plan = <<>>)
    => /\ DOMAIN fs \ {log_path} = DOMAIN fs0
       /\ \A p \in DOMAIN fs0 : fs[p] = fs0[p]

\* C10: when the destination computed for a considered file (the candidate
\* at --chars in append, the untagged target in strip, once the stem has
\* parsed and verify has passed) exists with the content of the source, the
\* file is a duplicate; and for every duplicate, the candidate of a longer
\* tag included, nothing is renamed, the tree is as it was with the source
\* and the existing file in place, the run goes on, and of the outcome
\* counters only skipped_dupe_or_already has changed, by one.
C10_Duplicate ==
  Considered =>
    LET p == last.src
        tree == last.before
        stem == PathStem(p.name)
        ext == PathSuffix(p.name)
        d == digest_blake3(tree[p])
        parsed == parse_suffix(stem)
        reached == IF args.strip
                   THEN parsed.matched
                          /\ (args.verify => verify_suffix_matches_digest(parsed.tag, d, args.chars))
                   ELSE ~SUFFIX_RE_match(stem)
        dst == IF args.strip
               THEN [dir |-> p.dir, name |-> parsed.stem \o ext]
               ELSE [dir |-> p.dir, name |-> stem \o <<"_", "_">>
                                               \o suffix_from_digest(d, args.chars) \o ext]
    IN  /\ (reached /\ dst \in DOMAIN tree /\ tree[dst] = tree[p])
             => (last.outcome = "Duplicate" /\ last.dst = dst)
        /\ last.outcome = "Duplicate"
             => /\ ~last.moved
                /\ pc # "raised"
                /\ fs = tree
                /\ p \in DOMAIN fs
                /\ last.dst \in DOMAIN fs
                /\ last.dst # p
                /\ fs[last.dst] = fs[p]
                /\ ctr.skipped_dupe_or_already = last.counted.skipped_dupe_or_already + 1
                /\ ctr.renamed = last.counted.renamed
                /\ ctr.conflicts = last.counted.conflicts
                /\ ctr.skipped_verify_fail = last.counted.skipped_verify_fail

\* C10 witness: strip with --apply and verify found the untagged target
\* taken by the same content, after an invocation that renamed something.
C10_Witness ==
  /\ Following
  /\ prev.moves # {}
  /\ args.strip /\ args.apply /\ args.verify
  /\ last.outcome = "Duplicate"
  /\ last.dst = Plain

\* C5 as claimed: for a base stem that is not of the tagged form and a
\* digest d, parse(base_stem + "__" + encode(d, 6)) is (base_stem, encode(d, 6)).
C5_ParseRoundTrip ==
  (cout.op = "parse" /\ cin.n = 6 /\ ~SUFFIX_RE_match(cin.base))
    => /\ cout.parsed.matched
       /\ cout.parsed.stem = cin.base
       /\ cout.parsed.tag = suffix_from_digest(cin.d, 6)

\* C6 as claimed: encode(d, n) has exactly n characters (stated for n >= 0).
C6_EncodeLength ==
  (cout.op = "encode" /\ cin.n >= 0) => Len(cout.str) = cin.n

\* C7: verify(tag, digest, min_chars) is true exactly when the tag has at
\* least min_chars characters and is encode(digest, len(tag)); so it is true
\* of encode(d, 6) with d and 6, and false of every other tag of 6 characters.
C7_Verify ==
  cout.op = "verify" =>
    /\ cout.ok <=> ( /\ Len(cin.tag) >= cin.n
                     /\ cin.tag = suffix_from_digest(cin.d, Len(cin.tag)) )
    /\ (cin.n = 6 /\ cin.tag = suffix_from_digest(cin.d, 6)) => cout.ok
    /\ (cin.n = 6 /\ Len(cin.tag) = 6 /\ cin.tag # suffix_from_digest(cin.d, 6)) => ~cout.ok

\* C7 witness: verify accepted a tag longer than min_chars.
C7_Witness ==
  /\ cout.op = "verify"
  /\ cout.ok
  /\ cin.n = 6
  /\ Len(cin.tag) = 8

\* C11: in strip mode with verify, a file whose stem parses and whose tag is
\* shorter than --chars or is not encode(digest of its content, len(tag)) ends
\* as VerifyFailed whether or not the untagged target exists and whatever the
\* conflict policy: nothing is renamed, the tree is as it was, and of the
\* outcome counters only skipped_verify_fail has changed, by one (scanned and
\* considered count the file as they count every considered file).
C11_VerifyFailed ==
  (Considered /\ args.strip /\ args.verify) =>
    LET p == last.src
        tree == last.before
        parsed == parse_suffix(PathStem(p.name))
        d == digest_blake3(tree[p])
        good == /\ Len(parsed.tag) >= args.chars
                /\ parsed.tag = suffix_from_digest(d, Len(parsed.tag))
    IN  /\ (parsed.matched /\ ~good)
             => /\ last.outcome = "VerifyFailed"
                /\ ~last.moved
                /\ fs = tree
                /\ p \in DOMAIN fs
                /\ ctr = Bump(Bump(Bump(last.counted, "scanned"), "considered"),
                              "skipped_verify_fail")
        /\ last.outcome = "VerifyFailed" => (parsed.matched /\ ~good)

\* C11 witness: with --apply and add-counter, a file whose tag does not belong
\* to its content failed verify while the untagged target was taken.
C11_Witness ==
  /\ args.strip /\ args.verify /\ args.apply
  /\ args.conflict = "add-counter"
  /\ last.outcome = "VerifyFailed"
  /\ Len(last.tag) >= args.chars
  /\ Plain \in DOMAIN fs

\* C12: in strip mode, when the stem has parsed, verify has passed and the
\* untagged target exists with other content than the source, under refuse
\* and under keep-suffixed the outcome is Conflict: nothing is renamed, the
\* source and the target are where and what they were, and of the outcome
\* counters only conflicts has changed, by one.
C12_Conflict ==
  (Considered /\ args.strip) =>
    LET p == last.src
        tree == last.before
        parsed == parse_suffix(PathStem(p.name))
        d == digest_blake3(tree[p])
        reached == /\ parsed.matched
                   /\ args.verify => verify_suffix_matches_digest(parsed.tag, d, args.chars)
        dst == [dir |-> p.dir, name |-> parsed.stem \o PathSuffix(p.name)]
    IN  ( /\ reached
          /\ dst \in DOMAIN tree
          /\ tree[dst] # tree[p]
          /\ args.conflict \in {"refuse", "keep-suffixed"} )
        => /\ last.outcome = "Conflict"
           /\ last.dst = dst
           /\ ~last.moved
           /\ fs = tree
           /\ p \in DOMAIN fs
           /\ fs[dst] = tree[dst]
           /\ ctr = Bump(Bump(Bump(last.counted, "scanned"), "considered"), "conflicts")

\* C12 witness: strip with --apply under keep-suffixed met a target of the
\* same size and other content.
C12_Witness ==
  /\ args.strip /\ args.apply
  /\ args.conflict = "keep-suffixed"
  /\ last.outcome = "Conflict"
  /\ last.dst = Plain
  /\ st_size(fs[last.src]) = st_size(fs[Plain])

\* The name find_noncolliding_strip_dst tries at counter i.
CounterName(dirpath, stem, ext, i) ==
  [dir |-> dirpath, name |-> stem \o <<"_">> \o Decimal(i) \o ext]

\* The file handled last went, in strip mode under add-counter, as far as
\* an untagged target that exists with other content.
CounterCase ==
  /\ Handled
  /\ args.strip
  /\ args.conflict = "add-counter"
  /\ last.src \in DOMAIN last.before
  /\ Lower(PathSuffix(last.src.name)) \in ext_filter
  /\ LET p == last.src
         tree == last.before
         parsed == parse_suffix(PathStem(p.name))
         dst == [dir |-> p.dir, name |-> parsed.stem \o PathSuffix(p.name)]
     IN  /\ parsed.matched
         /\ args.verify => verify_suffix_matches_digest(parsed.tag, digest_blake3(tree[p]),
                                                        args.chars)
         /\ dst \in DOMAIN tree
         /\ tree[dst] # tree[p]

\* The counters whose names are free in the tree the file handled last met.
FreeCounters ==
  LET p == last.src
      base_stem == parse_suffix(PathStem(p.name)).stem
  IN  { i \in 1..(CounterLimit - 1) :
          CounterName(p.dir, base_stem, PathSuffix(p.name), i) \notin DOMAIN last.before }

\* C13: in strip mode under add-counter, when the untagged target exists with
\* other content and a counter name is free, the file is renamed (with
\* --apply) to base_stem + "_" + i + extension in its own directory, where i
\* is the smallest counter from 1 whose name does not exist: the names of
\* all smaller counters exist, and both conflicts and renamed are counted.
C13_AddCounter ==
  (CounterCase /\ FreeCounters # {}) =>
    LET p == last.src
        tree == last.before
        base_stem == parse_suffix(PathStem(p.name)).stem
        ext == PathSuffix(p.name)
    IN  /\ last.outcome = "Rename"
        /\ last.moved = args.apply
        /\ \E i \in FreeCounters :
             /\ last.dst = CounterName(p.dir, base_stem, ext, i)
             /\ \A j \in 1..(i - 1) : CounterName(p.dir, base_stem, ext, j) \in DOMAIN tree
        /\ last.dst \notin DOMAIN tree
        /\ args.apply => (p \notin DOMAIN fs /\ fs[last.dst] = tree[p])
        /\ ~args.apply => fs = tree
        /\ ctr = Bump(Bump(Bump(Bump(last.counted, "scanned"), "considered"), "conflicts"),
                      "renamed")

\* C13 witness: without --apply, a.heic and a_1.heic were taken and the
\* proposal was a_2.heic.
C13_Witness ==
  /\ CounterCase
  /\ ~args.apply
  /\ last.outcome = "Rename"
  /\ Counter1 \in DOMAIN last.before
  /\ last.dst = Counter2

\* C17: the add-counter search is bounded.  It tries the counters 1, 2, ...
\* below its limit and no others; when every name it tries exists it raises:
\* the run ends with the error, nothing is renamed or recorded and the source
\* and every other file are where they were.  It raises in no other case,
\* and a name it returns was free.
C17_BoundedSearch ==
  /\ (CounterCase /\ FreeCounters = {})
       => /\ last.outcome = "Raised"
          /\ pc = "raised"
          /\ ~last.moved
          /\ fs = last.before
          /\ last.src \in DOMAIN fs
          /\ \A i \in 1..Len(log) : log[i].old # last.src
          /\ ctr = Bump(Bump(last.counted, "scanned"), "considered")
  /\ last.outcome = "Raised" => (CounterCase /\ FreeCounters = {})
  /\ (CounterCase /\ last.outcome = "Rename") => last.dst \notin DOMAIN last.before

\* C17 witness: with --apply, a_1.heic up to the last name tried were taken,
\* and the search raised.
C17_Witness ==
  /\ pc = "raised"
  /\ args.apply
  /\ last.outcome = "Raised"
  /\ \A i \in 1..(CounterLimit - 1) :
       CounterName(Root, <<"a">>, Heic, i) \in DOMAIN fs

\* C14: while the invocation under way was made without --apply, in append
\* or in strip mode, no step changes the tree (no file is renamed, created
\* or removed, the log file is not created) and no step adds to the log; so
\* the tree after the run is the tree before it.
C14_DryRun == [][ ~args'.apply => (fs' = fs /\ log' = log) ]_vars

\* C14 witness: after an invocation that renamed a file, a strip invocation
\* without --apply has proposed a rename and counted it, and has ended.
C14_Witness ==
  /\ prev.ran /\ pc = "idle" /\ plan = <<>>
  /\ ~args.apply /\ args.strip
  /\ last.outcome = "Rename"
  /\ ~last.moved
  /\ ctr.renamed = 1
  /\ fs = runStart
  /\ fs # fs0

\* C15: the log is append-only and a step adds at most one record; a step
\* adds a record exactly when it renames a file, and that record names the
\* path that is gone and the path, free before, at which the content now
\* is, with the size of the file there (so it is written of a rename that
\* has completed); a step that skips a file adds nothing; and when a rename
\* fails the run ends with the error and neither the tree nor the log
\* changes.  So the records never outnumber the completed renames.
C15_LogOrder ==
  [][ LET gone == DOMAIN fs \ DOMAIN fs'
          r == log'[Len(log')]
      IN  /\ Len(log') \in {Len(log), Len(log) + 1}
          /\ SubSeq(log', 1, Len(log)) = log
          /\ (Len(log') = Len(log) + 1) <=> (gone # {})
          /\ gone # {}
               => /\ args.apply
                  /\ gone = {r.old}
                  /\ r.new \notin DOMAIN fs
                  /\ r.new \in DOMAIN fs'
                  /\ fs'[r.new] = fs[r.old]
                  /\ r.size = st_size(fs'[r.new])
                  /\ r.mode = (IF args.strip THEN "strip" ELSE "apply")
          /\ (last' # last /\ last'.outcome = "RenameFailed")
               => (pc' = "raised" /\ fs' = fs /\ log' = log)
    ]_vars

\* C15 witness: a run renamed and recorded one file, and the rename of the
\* next file failed.
C15_Witness ==
  /\ pc = "raised"
  /\ last.outcome = "RenameFailed"
  /\ moves # {}
  /\ Len(log) = 1
  /\ last.src \in DOMAIN fs

\* C16 as claimed: when reading a file for its digest fails, the file is left
\* where it was and the run goes on with the next file the walker yields.
C16_ReadFailureSkipsFile ==
  last.outcome = "DigestFailed"
    => /\ fs = last.before
       /\ last.src \in DOMAIN fs
       /\ pc = "loop"

\* C18 as claimed: every record of the log, of either mode, has a timestamp,
\* the run identifier, the mode, the old and the new path, the tag added
\* (apply) or removed (strip), the size and the modification time.
C18_RecordFields ==
  \A i \in 1..Len(log) :
    /\ {"ts", "run_id", "mode", "old", "new", "size", "mtime"} \subseteq DOMAIN log[i]
    /\ (IF log[i].mode = "apply" THEN "suffix_used" ELSE "suffix_removed") \in DOMAIN log[i]

\* C19 as claimed: each pass of the loop of propose_dst_apply tries a
\* candidate that no earlier pass of the same call tried (so that, the tree
\* being finite, the loop comes to a free name or to a duplicate and ends).
C19_FreshCandidates ==
  pc = "propose" =>
    \A k \in args.chars..(n - 1) :
      candidate(cur, digest_blake3(fs[cur]), k) # candidate(cur, digest_blake3(fs[cur]), n)

\* C20 as claimed: there are a digest d and lengths n < m for which
\* encode(d, n) is not a prefix of encode(d, m); stated of the digests and
\* lengths of PrefixInputs, once a comparison has been made.
C20_NotStablePrefix ==
  cout.op = "prefix" =>
    \E i \in PrefixInputs :
      ~IsPrefix(suffix_from_digest(i.d, i.n), suffix_from_digest(i.d, i.m))

\* C20 as amended: for every digest d and all lengths 0 <= n < m, encode(d, n)
\* is a prefix of encode(d, m).
C20_StablePrefix == cout.op = "prefix" => cout.ok

\* C20 witness: lengths 6 and 7, which take 5 and 6 bytes of the digest, and
\* lengths 43 and 44, which both take all of it.
C20_Witness ==
  /\ cout.op = "prefix"
  /\ cout.ok
  /\ cin.d = DHello
  /\ \/ (cin.n = 6 /\ cin.m = 7 /\ Len(cout.str) = 6)
     \/ (cin.n = 43 /\ cin.m = 44)

\* C21 as claimed: the tag of every rename an append run proposes is a string
\* over [A-Za-z0-9_-] of at least 4 characters and of at least --chars
\* characters, whatever --chars is, and the new stem has the tagged form.
C21_TagForm ==
  (Handled /\ ~args.strip /\ last.outcome = "Rename")
    => /\ \A i \in 1..Len(last.tag) : last.tag[i] \in TagChars
       /\ Len(last.tag) >= 4
       /\ Len(last.tag) >= args.chars
       /\ SUFFIX_RE_match(PathStem(last.dst.name))

(***************************************************************************)
(* A whole run as a function of the tree, the arguments and the walk       *)
(***************************************************************************)

MaxWalkFiles == 2

\* What one pass of the for loop of main leaves: the tree, the counters, the
\* outcome it reports for the file, and whether the loop goes on.
Pass(tree, counters, outcome, dst, goes_on) ==
  [ tree |-> tree, ctr |-> counters, outcome |-> outcome, dst |-> dst, goes_on |-> goes_on ]

\* propose_dst_apply, lines 76-85, from n = k on: the destination, NoPath for
\* a duplicate, Raised when the loop does not return.
RECURSIVE propose_dst_apply(_, _, _, _)
propose_dst_apply(tree, src, digest, k) ==
  LET dst == candidate(src, digest, k)
  IN  IF ~exists(tree, dst) THEN dst
      ELSE IF same_bytes(tree, src, dst) THEN NoPath
      ELSE IF k >= MaxTagLen THEN Raised
      ELSE propose_dst_apply(tree, src, digest, k + 1)

\* main, lines 130-169: append mode for the considered file p.
append_pass(tree, a, c, p) ==
  LET dst == propose_dst_apply(tree, p, digest_blake3(tree[p]), a.chars)
  IN  IF SUFFIX_RE_match(PathStem(p.name))
      THEN Pass(tree, Bump(c, "skipped_dupe_or_already"), "AlreadyTagged", NoPath, TRUE)
      ELSE IF dst = Raised THEN Pass(tree, c, "Raised", NoPath, FALSE)
      ELSE IF dst = NoPath
      THEN Pass(tree, Bump(c, "skipped_dupe_or_already"), "Duplicate", NoPath, TRUE)
      ELSE Pass(IF a.apply THEN rename(tree, p, dst) ELSE tree, Bump(c, "renamed"),
                "Rename", dst, TRUE)

\* main, lines 172-229: strip mode for the considered file p.
strip_pass(tree, a, c, p) ==
  LET parsed == parse_suffix(PathStem(p.name))
      dst == with_name(p, parsed.stem \o PathSuffix(p.name))
      alt == find_noncolliding_strip_dst(tree, p.dir, parsed.stem, PathSuffix(p.name),
                                         a.conflict)
  IN  IF ~parsed.matched
      THEN Pass(tree, Bump(c, "skipped_dupe_or_already"), "NotTagged", NoPath, TRUE)
      ELSE IF a.verify /\ ~verify_suffix_matches_digest(parsed.tag, digest_blake3(tree[p]),
                                                        a.chars)
      THEN Pass(tree, Bump(c, "skipped_verify_fail"), "VerifyFailed", NoPath, TRUE)
      ELSE IF ~exists(tree, dst)
      THEN Pass(IF a.apply THEN rename(tree, p, dst) ELSE tree, Bump(c, "renamed"),
                "Rename", dst, TRUE)
      ELSE IF same_bytes(tree, p, dst)
      THEN Pass(tree, Bump(c, "skipped_dupe_or_already"), "Duplicate", dst, TRUE)
      ELSE IF a.conflict = "keep-suffixed" \/ a.conflict = "refuse"
      THEN Pass(tree, Bump(c, "conflicts"), "Conflict", dst, TRUE)
      ELSE IF alt = Raised THEN Pass(tree, c, "Raised", NoPath, FALSE)
      ELSE IF alt = NoPath THEN Pass(tree, Bump(c, "conflicts"), "Conflict", dst, TRUE)
      ELSE Pass(IF a.apply THEN rename(tree, p, alt) ELSE tree,
                Bump(Bump(c, "conflicts"), "renamed"), "Rename", alt, TRUE)

\* main, lines 108-229: one pass of "for p in iter_files(root)".
main_pass(tree, a, c, p) ==
  LET c1 == Bump(c, "scanned")
      c2 == Bump(c1, "considered")
  IN  IF ~exists(tree, p) THEN Pass(tree, c1, "NotFile", NoPath, TRUE)
      ELSE IF Lower(PathSuffix(p.name)) \notin ext_filter
      THEN Pass(tree, Bump(c1, "skipped_not_target"), "NotTarget", NoPath, TRUE)
      ELSE IF a.strip THEN strip_pass(tree, a, c2, p)
      ELSE append_pass(tree, a, c2, p)

\* main, lines 108-248: the for loop over the files the walker yields, in
\* the order it yields them; report is what was said of each file so far.
RECURSIVE main_loop(_, _, _, _, _)
main_loop(tree, a, c, order, report) ==
  IF order = <<>>
  THEN [ tree |-> tree, ctr |-> c, report |-> report, returned |-> TRUE ]
  ELSE LET r == main_pass(tree, a, c, Head(order))
           said == Append(report, [src |-> Head(order), outcome |-> r.outcome, dst |-> r.dst])
       IN  IF r.goes_on THEN main_loop(r.tree, a, r.ctr, Tail(order), said)
           ELSE [ tree |-> r.tree, ctr |-> r.ctr, report |-> said, returned |-> FALSE ]

\* main, lines 93-95: with --apply the log is opened for appending, which
\* creates it.
opened(tree, a) ==
  IF a.apply /\ ~exists(tree, log_path)
  THEN [ q \in DOMAIN tree \cup {log_path} |-> IF q = log_path THEN LogData ELSE tree[q] ]
  ELSE tree

\* main: one invocation on a tree, the walker yielding the files in order.
main(tree, a, order) == main_loop(opened(tree, a), a, ZeroCounters, order, <<>>)

NoRun == [ tree |-> <<>>, ctr |-> ZeroCounters, report |-> <<>>, returned |-> FALSE ]

WalkNames == { Plain, Tagged4, Tagged6, Counter1 }

\* Trees that hold the log of an earlier run, so that a dry run and an
\* applied run walk the same files.
LoggedTrees ==
  { opened(t, [NoArgs EXCEPT !.apply = TRUE]) :
      t \in Trees(WalkNames, {"zero", "late"}, MaxWalkFiles) }

\* One tree and configuration run twice: without and with --apply in the
\* same order ("dry"), or with --apply in two orders ("orders").
WalkInputs ==
  UNION { [ op : {"dry"}, tree : {t}, args : { a \in AllArgs : a.apply },
            o1 : iter_files(t), o2 : {<<>>} ] : t \in LoggedTrees }
    \cup
  UNION { [ op : {"orders"}, tree : {t}, args : { a \in AllArgs : a.apply },
            o1 : iter_files(t), o2 : iter_files(t) ] : t \in LoggedTrees }

WalkInit ==
  /\ cin \in WalkInputs
  /\ cout = [op |-> "none", r1 |-> NoRun, r2 |-> NoRun]
  /\ fs = cin.tree
  /\ fs0 = fs
  /\ runStart = fs
  /\ plan = <<>>
  /\ RunIdle

\* main(root) against main(root, --apply), the walker yielding the same order
DryAndApplied ==
  /\ cin.op = "dry"
  /\ cout.op = "none"
  /\ cout' = [ op |-> "dry",
               r1 |-> main(cin.tree, [cin.args EXCEPT !.apply = FALSE], cin.o1),
               r2 |-> main(cin.tree, cin.args, cin.o1) ]
  /\ UNCHANGED <<cin, fsvars>>

\* main(root, --apply) with the walker yielding o1 against the same with o2
TwoOrders ==
  /\ cin.op = "orders"
  /\ cout.op = "none"
  /\ cout' = [ op |-> "orders",
               r1 |-> main(cin.tree, cin.args, cin.o1),
               r2 |-> main(cin.tree, cin.args, cin.o2) ]
  /\ UNCHANGED <<cin, fsvars>>

WalkNext == DryAndApplied \/ TwoOrders

WalkSpec == WalkInit /\ [][WalkNext]_vars

\* C22 as claimed: for the same tree, configuration and walker order a dry
\* run reports for every file the same outcome and destination as the
\* applied run, and ends with the same counters.
C22_DryRunReportsApplied ==
  cout.op = "dry" => (cout.r1.report = cout.r2.report /\ cout.r1.ctr = cout.r2.ctr)

\* C23 as claimed: whatever order the walker yields the files in, an applied
\* run of a given configuration on a given tree ends with the same files of
\* the same content and the same counters.
C23_OrderIndependent ==
  cout.op = "orders" => (cout.r1.tree = cout.r2.tree /\ cout.r1.ctr = cout.r2.ctr)

\* C24 as claimed: when a run has ended, every considered file is counted
\* in exactly one of renamed, skipped_dupe_or_already, skipped_verify_fail
\* and conflicts, and scanned covers the considered and the filtered files.
C24_CountersPartition ==
  (pc = "idle" /\ prev.ran)
    => /\ ctr.considered = ctr.renamed + ctr.skipped_dupe_or_already
                             + ctr.skipped_verify_fail + ctr.conflicts
       /\ ctr.scanned >= ctr.considered + ctr.skipped_not_target

====
